---- MODULE Spec2Model ----
(***************************************************************************)
(* The circuit model of backend/models/circuit_model.py, the component     *)
(* constructor of backend/models/circuit_components.py, the topology       *)
(* analysis of backend/analysis_strategies.py and the index bookkeeping of *)
(* backend/services/circuit_solver.py.                                     *)
(*                                                                         *)
(* A component value is a rational <<numerator, denominator>> with a       *)
(* positive denominator.  A component id (a fresh uuid4 in the code) is    *)
(* the position at which the component was constructed.                    *)
(***************************************************************************)
EXTENDS FiniteSets, Integers, Sequences, TLC

(* ---------------------------------------------------------------- bounds *)
\* node identifiers offered to the operations are 0..MaxNode
MaxNode == 2
\* at most MaxComps components are added to one circuit
MaxComps == 2
\* at most SolveMaxComps components are added in the solver specification
SolveMaxComps == 3
\* at most RequestMaxComps records are sent in one request
RequestMaxComps == 2
\* at most StampMaxComps components are added in the assembly specification
StampMaxComps == 3

NodeIds == 0 .. MaxNode
Kinds == {"Resistor", "VoltageSource", "CurrentSource"}
Values == {<<0 - 10, 1>>, <<0, 1>>, <<10, 1>>}
\* the kinds and the value offered by the topology specification
TopologyKinds == {"Resistor", "VoltageSource"}
TopologyValues == {<<10, 1>>}
\* backend/test.py: the circuit of test_equations, as (kind, value, node1, node2)
Scenario5 ==
    << <<"VoltageSource", <<250, 1>>, 1, 0>>,
       <<"VoltageSource", <<4, 1>>, 4, 2>>,
       <<"Resistor", <<50, 1>>, 1, 3>>,
       <<"Resistor", <<10, 1>>, 3, 2>>,
       <<"Resistor", <<10, 1>>, 4, 3>>,
       <<"Resistor", <<40, 1>>, 4, 0>>,
       <<"CurrentSource", <<1, 5>>, 2, 0>>,
       <<"CurrentSource", <<5, 1>>, 0, 2>> >>
\* a node is given as an integer or as a text token
GndTokens == {"GND", "gnd"}
IntInput(n) == [tag |-> "int", val |-> n]
IntInputs == {IntInput(n) : n \in NodeIds}
NodeInputs == IntInputs \cup {[tag |-> "str", val |-> s] : s \in GndTokens}

(* ----------------------------------------------------------------- state *)
VARIABLES
    components,      \* CircuitModel.components: the dict, in insertion order
    graph,           \* CircuitModel.graph: the nx.MultiGraph
    nodes,           \* CircuitModel.nodes
    reference_node,  \* CircuitModel.reference_node
    last             \* the most recent call and the value it returned

vars == <<components, graph, nodes, reference_node, last>>

(* ------------------------------------------------------------ components *)
\* str(node).upper() of the tokens offered
Upper(s) == IF s = "gnd" THEN "GND" ELSE s

\* Component._parse_node: 'GND' in any case is 0, anything else int(node)
parse_node(raw) ==
    IF raw.tag = "str" /\ Upper(raw.val) = "GND" THEN 0 ELSE raw.val

\* Component.__init__ of the subclass `kind`; id stands for uuid4()
Component(kind, id, value, node1, node2) ==
    [id |-> id, kind |-> kind, value |-> value,
     node1 |-> parse_node(node1), node2 |-> parse_node(node2)]

(* ----------------------------------------------------------------- graph *)
\* nx.MultiGraph(): no node, no edge
EmptyGraph == [node |-> {}, edge |-> <<>>]

\* MultiGraph.add_edge(u, v, key=k, component=c) with a key not yet used
add_edge(g, u, v, k, c) ==
    [node |-> g.node \cup {u, v},
     edge |-> Append(g.edge, [u |-> u, v |-> v, key |-> k, component |-> c])]

\* MultiGraph.add_node(n)
add_node(g, n) == [g EXCEPT !.node = @ \cup {n}]

(* ------------------------------------------------------------------ init *)
\* CircuitModel.__init__
Init ==
    /\ components = <<>>
    /\ graph = EmptyGraph
    /\ nodes = {}
    /\ reference_node = 0
    /\ last = [op |-> "__init__"]

(* ------------------------------------------------------------- mutators *)
\* Component.__init__ followed by CircuitModel.add_component
add_component(kind, value, node1, node2) ==
    /\ LET c == Component(kind, Len(components) + 1, value, node1, node2)
       IN  /\ components' = Append(components, c)
           /\ graph' = add_edge(graph, c.node1, c.node2, c.id, c)
           /\ nodes' = nodes \cup {c.node1, c.node2}
    /\ last' = [op |-> "add_component"]
    /\ UNCHANGED reference_node

\* CircuitModel.set_reference_node
set_reference_node(raw) ==
    LET node == IF raw.tag = "str" /\ Upper(raw.val) = "GND" THEN 0 ELSE raw.val
    IN  /\ IF node \notin nodes
              THEN /\ nodes' = nodes \cup {node}
                   /\ graph' = add_node(graph, node)
              ELSE UNCHANGED <<nodes, graph>>
        /\ reference_node' = node
        /\ last' = [op |-> "set_reference_node"]
        /\ UNCHANGED components

(* --------------------------------------------------------------- queries *)
\* Python's sorted() on a collection of distinct integers: ascending
RECURSIVE sorted(_)
sorted(S) ==
    IF S = {} THEN <<>>
    ELSE LET m == CHOOSE x \in S : \A y \in S : x <= y
         IN  <<m>> \o sorted(S \ {m})

\* a descending sort, used to vary get_non_reference_nodes
RECURSIVE sorted_descending(_)
sorted_descending(S) ==
    IF S = {} THEN <<>>
    ELSE LET m == CHOOSE x \in S : \A y \in S : x >= y
         IN  <<m>> \o sorted_descending(S \ {m})

get_non_reference_nodes_descending(ns, ref) ==
    sorted_descending({n \in ns : n # ref})

\* CircuitModel.get_non_reference_nodes
get_non_reference_nodes(ns, ref) == sorted({n \in ns : n # ref})

\* the elements of a sequence
Range(s) == {s[i] : i \in DOMAIN s}

\* the other end of edge e seen from node n (n itself for a self-loop)
Neighbor(e, n) == IF e.u = n THEN e.v ELSE e.u

\* graph[node]: the adjacency of node, neighbours in the order they were
\* first joined to node
RECURSIVE AdjacencyOrder(_, _, _)
AdjacencyOrder(edges, n, seen) ==
    IF edges = <<>> THEN <<>>
    ELSE LET e == Head(edges)
             touches == e.u = n \/ e.v = n
             nb == Neighbor(e, n)
         IN  IF touches /\ nb \notin seen
                THEN <<nb>> \o AdjacencyOrder(Tail(edges), n, seen \cup {nb})
                ELSE AdjacencyOrder(Tail(edges), n, seen)

\* graph[node][neighbor]: the edges between the two, in insertion order
EdgesBetween(g, n, nb) ==
    SelectSeq(g.edge, LAMBDA e : {e.u, e.v} = {n, nb})

\* one (component, neighbor) pair per edge of graph[node][neighbor]
PairsOf(edges, nb) == [i \in DOMAIN edges |-> <<edges[i].component, nb>>]

RECURSIVE ConnectedPairs(_, _, _)
ConnectedPairs(g, n, nbs) ==
    IF nbs = <<>> THEN <<>>
    ELSE PairsOf(EdgesBetween(g, n, Head(nbs)), Head(nbs))
           \o ConnectedPairs(g, n, Tail(nbs))

\* CircuitModel.get_components_connected_to_node
get_components_connected_to_node(g, node) ==
    IF node \notin g.node THEN <<>>
    ELSE ConnectedPairs(g, node, AdjacencyOrder(g.edge, node, {}))

(* ------------------------------------------------------ topology analysis *)
\* [c for c in components.values() if isinstance(c, VoltageSource)]
voltage_sources_of(comps) ==
    SelectSeq(comps, LAMBDA c : c.kind = "VoltageSource")

\* iteration order of a Python set of small non-negative integers
SetOrder(S) == sorted(S)

\* the neighbours of node n in vs_graph, whose edges are the terminal pairs
\* of the voltage sources vs
VsNeighbors(vs, n) ==
    {vs[i].node2 : i \in {j \in DOMAIN vs : vs[j].node1 = n}}
      \cup {vs[i].node1 : i \in {j \in DOMAIN vs : vs[j].node2 = n}}

\* networkx _plain_bfs: every node reachable from the frontier
RECURSIVE plain_bfs(_, _, _)
plain_bfs(vs, frontier, seen) ==
    IF frontier = {} THEN seen
    ELSE LET next == (UNION {VsNeighbors(vs, n) : n \in frontier}) \ seen
         IN  plain_bfs(vs, next, seen \cup next)

\* nx.connected_components: one component per node not seen before, in the
\* order of the graph's nodes
RECURSIVE connected_components(_, _, _)
connected_components(vs, order, seen) ==
    IF order = <<>> THEN <<>>
    ELSE IF Head(order) \in seen
            THEN connected_components(vs, Tail(order), seen)
            ELSE LET c == plain_bfs(vs, {Head(order)}, {Head(order)})
                 IN  <<c>> \o connected_components(vs, Tail(order), seen \cup c)

\* a variant that does not merge: one two-node set per voltage source
find_supernodes_unmerged(ns, vs) ==
    [i \in DOMAIN vs |-> {vs[i].node1, vs[i].node2}]

\* a variant that keeps the components of one node as well
find_supernodes_with_singletons(ns, vs) ==
    connected_components(vs, SetOrder(ns), {})

\* NodalAnalysis._find_supernodes
find_supernodes(ns, vs) ==
    SelectSeq(connected_components(vs, SetOrder(ns), {}),
              LAMBDA c : Cardinality(c) > 1)

\* a variant that calls every supernode grounded
get_grounded_supernodes_all(sns, ref) == sns

\* NodalAnalysis._get_grounded_supernodes
get_grounded_supernodes(sns, ref) ==
    SelectSeq(sns, LAMBDA sn : ref \in sn)

\* a variant that counts every non-reference node as regular
regular_nodes_all(non_ref, sns) == non_ref

\* _analyze: the non-reference nodes that are in no supernode
regular_nodes(non_ref, sns) ==
    SelectSeq(non_ref, LAMBDA n : ~ \E i \in DOMAIN sns : n \in sns[i])

\* _analyze: the supernodes without the reference node
ungrounded_supernodes(sns, ref) ==
    SelectSeq(sns, LAMBDA sn : ref \notin sn)

\* NodalAnalysis._analyze: the summary dictionary
analyze(non_ref, vs, sns, grounded, ref) ==
    LET regular == regular_nodes(non_ref, sns)
        ungrounded == ungrounded_supernodes(sns, ref)
        num_kcl_equations == Len(regular) + Len(ungrounded)
        num_constraint_equations == Len(vs)
    IN  [reference_node |-> ref,
         non_reference_nodes |-> non_ref,
         num_non_reference_nodes |-> Len(non_ref),
         supernodes |-> sns,
         grounded_supernodes |-> grounded,
         ungrounded_supernodes |-> ungrounded_supernodes(sns, ref),
         regular_nodes |-> regular,
         num_kcl_equations |-> num_kcl_equations,
         num_constraint_equations |-> num_constraint_equations,
         num_voltage_sources |-> Len(vs),
         total_equations |-> num_kcl_equations + num_constraint_equations]

\* NodalAnalysis.__init__ followed by get_analysis_summary
analysis_summary(comps, ns, ref) ==
    LET non_ref_nodes == get_non_reference_nodes(ns, ref)
        voltage_sources == voltage_sources_of(comps)
        supernodes == find_supernodes(ns, voltage_sources)
        grounded_supernodes == get_grounded_supernodes(supernodes, ref)
    IN  analyze(non_ref_nodes, voltage_sources, supernodes,
                grounded_supernodes, ref)

(* ---------------------------------------------------------------- solver *)
\* CircuitSolver.__init__: sorted([n for n in model.nodes if n != ref_node])
solver_non_ref_nodes(ns, ref) == sorted({n \in ns : n # ref})

\* {node: i for i, node in enumerate(non_ref_nodes)}, indices from 0
node_to_index(non_ref) ==
    [n \in Range(non_ref) |-> (CHOOSE i \in DOMAIN non_ref : non_ref[i] = n) - 1]

\* {i: node for node, i in node_to_index.items()}
index_to_node(n2i) ==
    [i \in {n2i[n] : n \in DOMAIN n2i} |-> CHOOSE n \in DOMAIN n2i : n2i[n] = i]

\* CircuitSolver.__init__: the fields of the new solver
solver_fields(comps, ns, ref) ==
    LET non_ref_nodes == solver_non_ref_nodes(ns, ref)
        voltage_sources == voltage_sources_of(comps)
        n2i == node_to_index(non_ref_nodes)
    IN  [ref_node |-> ref,
         resistors |-> SelectSeq(comps, LAMBDA c : c.kind = "Resistor"),
         voltage_sources |-> voltage_sources,
         current_sources |-> SelectSeq(comps, LAMBDA c : c.kind = "CurrentSource"),
         non_ref_nodes |-> non_ref_nodes,
         num_nodes |-> Len(non_ref_nodes),
         num_vs |-> Len(voltage_sources),
         node_to_index |-> n2i,
         index_to_node |-> index_to_node(n2i)]

(* ---------------------------------------------------------- query actions *)
\* a call of model.get_non_reference_nodes()
Call_get_non_reference_nodes ==
    /\ last' = [op |-> "get_non_reference_nodes",
                ret |-> get_non_reference_nodes(nodes, reference_node)]
    /\ UNCHANGED <<components, graph, nodes, reference_node>>

\* a call of model.get_components_connected_to_node(node)
Call_get_components_connected_to_node(node) ==
    /\ last' = [op |-> "get_components_connected_to_node",
                node |-> node,
                ret |-> get_components_connected_to_node(graph, node)]
    /\ UNCHANGED <<components, graph, nodes, reference_node>>

\* NodalAnalysis(model).get_analysis_summary()
NodalAnalysis ==
    /\ last' = [op |-> "NodalAnalysis",
                ret |-> analysis_summary(components, nodes, reference_node)]
    /\ UNCHANGED <<components, graph, nodes, reference_node>>

\* CircuitSolver(model)
CircuitSolver ==
    /\ last' = [op |-> "CircuitSolver",
                ret |-> solver_fields(components, nodes, reference_node)]
    /\ UNCHANGED <<components, graph, nodes, reference_node>>

(* ------------------------------------------------------------ arithmetic *)
\* The floating-point numbers of the code are modelled by exact rationals
\* <<numerator, denominator>> in lowest terms with a positive denominator.
RECURSIVE GCD(_, _)
GCD(a, b) == IF b = 0 THEN a ELSE GCD(b, a % b)

IntAbs(n) == IF n < 0 THEN 0 - n ELSE n

\* the rational n/d (d # 0) in lowest terms
RNorm(n, d) ==
    LET g == GCD(IntAbs(n), IntAbs(d))
    IN  IF d < 0 THEN <<(0 - n) \div g, (0 - d) \div g>>
                 ELSE <<n \div g, d \div g>>

RZero == <<0, 1>>
ROne == <<1, 1>>
RAdd(a, b) == RNorm(a[1] * b[2] + b[1] * a[2], a[2] * b[2])
RNeg(a) == <<0 - a[1], a[2]>>
RSub(a, b) == RAdd(a, RNeg(b))
RMul(a, b) == RNorm(a[1] * b[1], a[2] * b[2])
\* a / b for b # 0
RDiv(a, b) == RNorm(a[1] * b[2], a[2] * b[1])
RAbs(a) == <<IntAbs(a[1]), a[2]>>
RLess(a, b) == a[1] * b[2] < b[1] * a[2]

\* np.zeros((size, size)) and np.zeros(size), indexed from 0
ZeroMatrix(size) == [r \in 0 .. size - 1 |-> [c \in 0 .. size - 1 |-> RZero]]
ZeroVector(size) == [r \in 0 .. size - 1 |-> RZero]

\* G[r, c] += x and G[r, c] = x
MatAdd(G, r, c, x) == [G EXCEPT ![r][c] = RAdd(@, x)]
MatSet(G, r, c, x) == [G EXCEPT ![r][c] = x]
VecAdd(Z, r, x) == [Z EXCEPT ![r] = RAdd(@, x)]
VecSet(Z, r, x) == [Z EXCEPT ![r] = x]

\* the sum of f[i] over i in lo..hi
RECURSIVE RSum(_, _, _)
RSum(f, lo, hi) ==
    IF lo > hi THEN RZero ELSE RAdd(f[lo], RSum(f, lo + 1, hi))

\* G @ X
MatVec(G, X) ==
    LET size == Cardinality(DOMAIN G)
    IN  [r \in 0 .. size - 1 |->
            RSum([c \in 0 .. size - 1 |-> RMul(G[r][c], X[c])], 0, size - 1)]

(* ---------------------------------------------------------- linear solve *)
\* LAPACK partial pivoting: the first row from k on whose entry in column k
\* has the largest absolute value
PivotRow(A, k, size) ==
    CHOOSE p \in k .. size - 1 :
        /\ \A i \in k .. size - 1 : ~ RLess(RAbs(A[p][k]), RAbs(A[i][k]))
        /\ \A i \in k .. p - 1 : RLess(RAbs(A[i][k]), RAbs(A[p][k]))

SwapRows(A, i, j) == [A EXCEPT ![i] = A[j], ![j] = A[i]]

\* forward elimination of column k and the columns after it; a zero pivot
\* is an exactly singular matrix
RECURSIVE Eliminate(_, _, _, _)
Eliminate(A, b, k, size) ==
    IF k >= size THEN [singular |-> FALSE, A |-> A, b |-> b]
    ELSE LET p == PivotRow(A, k, size)
             A1 == SwapRows(A, k, p)
             b1 == SwapRows(b, k, p)
         IN  IF A1[k][k] = RZero THEN [singular |-> TRUE]
             ELSE LET m == [i \in 0 .. size - 1 |->
                               IF i > k THEN RDiv(A1[i][k], A1[k][k]) ELSE RZero]
                      A2 == [i \in 0 .. size - 1 |->
                               [c \in 0 .. size - 1 |->
                                   IF i > k
                                      THEN RSub(A1[i][c], RMul(m[i], A1[k][c]))
                                      ELSE A1[i][c]]]
                      b2 == [i \in 0 .. size - 1 |->
                               IF i > k THEN RSub(b1[i], RMul(m[i], b1[k]))
                                        ELSE b1[i]]
                  IN  Eliminate(A2, b2, k + 1, size)

\* back substitution in the upper triangular system U x = y, rows r..size-1
\* already solved in x
RECURSIVE BackSubstitute(_, _, _, _, _)
BackSubstitute(U, y, x, r, size) ==
    IF r < 0 THEN x
    ELSE LET s == RSum([c \in 0 .. size - 1 |->
                           IF c > r THEN RMul(U[r][c], x[c]) ELSE RZero],
                       0, size - 1)
             xr == RDiv(RSub(y[r], s), U[r][r])
         IN  BackSubstitute(U, y, [x EXCEPT ![r] = xr], r - 1, size)

\* np.linalg.solve(G, Z): the solution, or LinAlgError for a singular G
linalg_solve(G, Z) ==
    LET size == Cardinality(DOMAIN G)
        e == Eliminate(G, Z, 0, size)
    IN  IF e.singular
           THEN [raised |-> TRUE, exc |-> "LinAlgError", msg |-> "Singular matrix"]
           ELSE [raised |-> FALSE,
                 val |-> BackSubstitute(e.A, e.b, ZeroVector(size), size - 1, size)]


(* -------------------------------------------------------------- stamping *)
\* f is the solver (the fields set by CircuitSolver.__init__).  A stamping
\* step that raises gives [raised |-> TRUE, exc, msg].
index_of(f, node) == f.node_to_index[node]

\* a stamp that assigns the conductance of the resistor instead of adding it
stamp_resistor_assigning(G, f, resistor) ==
    LET n1 == resistor.node1
        n2 == resistor.node2
        g == RDiv(ROne, resistor.value)
    IN  IF n1 # f.ref_node /\ n2 # f.ref_node
           THEN LET i == index_of(f, n1)
                    j == index_of(f, n2)
                IN  MatSet(MatSet(MatSet(MatSet(G, i, i, g), j, j, g),
                                  i, j, RNeg(g)), j, i, RNeg(g))
        ELSE IF n1 # f.ref_node /\ n2 = f.ref_node
           THEN MatSet(G, index_of(f, n1), index_of(f, n1), g)
        ELSE IF n2 # f.ref_node /\ n1 = f.ref_node
           THEN MatSet(G, index_of(f, n2), index_of(f, n2), g)
        ELSE G

\* a stamp that leaves out the entry G[j, i] of a resistor between two
\* non-reference nodes
stamp_resistor_one_sided(G, f, resistor) ==
    LET n1 == resistor.node1
        n2 == resistor.node2
        g == RDiv(ROne, resistor.value)
    IN  IF n1 # f.ref_node /\ n2 # f.ref_node
           THEN LET i == index_of(f, n1)
                    j == index_of(f, n2)
                IN  MatAdd(MatAdd(MatAdd(G, i, i, g), j, j, g), i, j, RNeg(g))
        ELSE IF n1 # f.ref_node /\ n2 = f.ref_node
           THEN MatAdd(G, index_of(f, n1), index_of(f, n1), g)
        ELSE IF n2 # f.ref_node /\ n1 = f.ref_node
           THEN MatAdd(G, index_of(f, n2), index_of(f, n2), g)
        ELSE G

\* one iteration of the loop of _stamp_conductances
stamp_resistor(G, f, resistor) ==
    LET n1 == resistor.node1
        n2 == resistor.node2
        g == RDiv(ROne, resistor.value)
    IN  IF n1 # f.ref_node /\ n2 # f.ref_node
           THEN LET i == index_of(f, n1)
                    j == index_of(f, n2)
                IN  MatAdd(MatAdd(MatAdd(MatAdd(G, i, i, g), j, j, g),
                                  i, j, RNeg(g)), j, i, RNeg(g))
        ELSE IF n1 # f.ref_node /\ n2 = f.ref_node
           THEN MatAdd(G, index_of(f, n1), index_of(f, n1), g)
        ELSE IF n2 # f.ref_node /\ n1 = f.ref_node
           THEN MatAdd(G, index_of(f, n2), index_of(f, n2), g)
        ELSE G

\* stamping that leaves out a resistor of value 0 instead of raising
RECURSIVE stamp_conductances_skipping(_, _, _)
stamp_conductances_skipping(G, f, k) ==
    IF k > Len(f.resistors) THEN [raised |-> FALSE, G |-> G]
    ELSE IF f.resistors[k].value = RZero
       THEN stamp_conductances_skipping(G, f, k + 1)
    ELSE stamp_conductances_skipping(stamp_resistor(G, f, f.resistors[k]), f, k + 1)

\* _stamp_conductances from resistor k on; 1.0 / 0.0 raises
RECURSIVE stamp_conductances_from(_, _, _)
stamp_conductances_from(G, f, k) ==
    IF k > Len(f.resistors) THEN [raised |-> FALSE, G |-> G]
    ELSE IF f.resistors[k].value = RZero
       THEN [raised |-> TRUE, exc |-> "ZeroDivisionError",
             msg |-> "float division by zero"]
    ELSE stamp_conductances_from(stamp_resistor(G, f, f.resistors[k]), f, k + 1)

stamp_conductances(G, f) == stamp_conductances_from(G, f, 1)

\* one iteration of the loop of _stamp_current_sources
stamp_current_source(Z, f, cs) ==
    LET n1 == cs.node1
        n2 == cs.node2
        current == cs.value
        Z1 == IF n1 # f.ref_node THEN VecAdd(Z, index_of(f, n1), RNeg(current)) ELSE Z
    IN  IF n2 # f.ref_node THEN VecAdd(Z1, index_of(f, n2), current) ELSE Z1

RECURSIVE stamp_current_sources_from(_, _, _)
stamp_current_sources_from(Z, f, k) ==
    IF k > Len(f.current_sources) THEN Z
    ELSE stamp_current_sources_from(
             stamp_current_source(Z, f, f.current_sources[k]), f, k + 1)

stamp_current_sources(Z, f) == stamp_current_sources_from(Z, f, 1)

\* a voltage source stamped with the opposite sign in the column of its
\* current
stamp_voltage_source_flipped(G, f, vs_idx, vs) ==
    LET n1 == vs.node1
        n2 == vs.node2
        vs_row == f.num_nodes + vs_idx
        vs_col == f.num_nodes + vs_idx
        G1 == IF n1 # f.ref_node THEN MatSet(G, vs_row, index_of(f, n1), ROne) ELSE G
        G2 == IF n2 # f.ref_node THEN MatSet(G1, vs_row, index_of(f, n2), RNeg(ROne)) ELSE G1
        G3 == IF n1 # f.ref_node THEN MatSet(G2, index_of(f, n1), vs_col, RNeg(ROne)) ELSE G2
    IN  IF n2 # f.ref_node THEN MatSet(G3, index_of(f, n2), vs_col, ROne) ELSE G3

\* the entries one voltage source assigns in G, in the order of the code:
\* the constraint row first, then the column of its current
stamp_voltage_source(G, f, vs_idx, vs) ==
    LET n1 == vs.node1
        n2 == vs.node2
        vs_row == f.num_nodes + vs_idx
        vs_col == f.num_nodes + vs_idx
        G1 == IF n1 # f.ref_node THEN MatSet(G, vs_row, index_of(f, n1), ROne) ELSE G
        G2 == IF n2 # f.ref_node THEN MatSet(G1, vs_row, index_of(f, n2), RNeg(ROne)) ELSE G1
        G3 == IF n1 # f.ref_node THEN MatSet(G2, index_of(f, n1), vs_col, ROne) ELSE G2
    IN  IF n2 # f.ref_node THEN MatSet(G3, index_of(f, n2), vs_col, RNeg(ROne)) ELSE G3

\* _stamp_voltage_sources from the source of index vs_idx (from 0) on
RECURSIVE stamp_voltage_sources_from(_, _, _, _)
stamp_voltage_sources_from(G, Z, f, vs_idx) ==
    IF vs_idx >= Len(f.voltage_sources) THEN [G |-> G, Z |-> Z]
    ELSE LET vs == f.voltage_sources[vs_idx + 1]
         IN  stamp_voltage_sources_from(
                 stamp_voltage_source(G, f, vs_idx, vs),
                 VecSet(Z, f.num_nodes + vs_idx, vs.value), f, vs_idx + 1)

stamp_voltage_sources(G, Z, f) == stamp_voltage_sources_from(G, Z, f, 0)

\* CircuitSolver._build_mna_system
build_mna_system(f) ==
    LET size == f.num_nodes + f.num_vs
        c == stamp_conductances(ZeroMatrix(size), f)
    IN  IF c.raised THEN c
        ELSE LET Z1 == stamp_current_sources(ZeroVector(size), f)
                 v == stamp_voltage_sources(c.G, Z1, f)
             IN  [raised |-> FALSE, G |-> v.G, Z |-> v.Z]


(* ------------------------------------------------------------- packaging *)
\* the largest of the absolute values of a non-empty vector
MaxAbs(v) ==
    CHOOSE m \in {RAbs(v[i]) : i \in DOMAIN v} :
        \A i \in DOMAIN v : ~ RLess(m, RAbs(v[i]))

\* abs(x) < 1e-9, for a rational of numerator and denominator below 2^31
BelowBalanceThreshold(x) ==
    \/ x[1] = 0
    \/ IntAbs(x[1]) <= 2 /\ x[2] > IntAbs(x[1]) * 1000000000

\* comp.__class__.__name__.replace("Source", " Source")
type_name(kind) ==
    IF kind = "VoltageSource" THEN "Voltage Source"
    ELSE IF kind = "CurrentSource" THEN "Current Source"
    ELSE kind

\* CircuitSolver._get_power_description.  A non-zero rational of denominator
\* below 2^31 is beyond 1e-12 in absolute value; the amount printed after
\* "Supplying" and "Absorbing" is not modelled.
get_power_description(power) ==
    IF power[1] < 0 THEN "Supplying"
    ELSE IF power[1] > 0 THEN "Absorbing"
    ELSE "0 W"

\* a voltages dictionary without the entry of the reference node
voltages_without_reference(f, node_voltages) ==
    [n \in {f.index_to_node[i] : i \in DOMAIN node_voltages} |->
        node_voltages[CHOOSE i \in DOMAIN node_voltages : f.index_to_node[i] = n]]

\* the voltages dictionary of _package_solution
voltages_of(f, node_voltages) ==
    LET assigned == {f.index_to_node[i] : i \in DOMAIN node_voltages}
    IN  [n \in {f.ref_node} \cup assigned |->
            IF n \in assigned
               THEN node_voltages[CHOOSE i \in DOMAIN node_voltages :
                                     f.index_to_node[i] = n]
               ELSE RZero]

\* voltages.get(node, 0.0)
voltage_at(voltages, node) ==
    IF node \in DOMAIN voltages THEN voltages[node] ELSE RZero

\* every voltage source given the current of the first one
vs_current_of_first(f, comp, vs_currents) ==
    IF f.voltage_sources = <<>> THEN RZero ELSE vs_currents[0]

\* the current of a voltage source: vs_currents at the index of the first
\* voltage source of the solver with the id of comp, 0.0 if there is none
vs_current_of(f, comp, vs_currents) ==
    LET found == {k \in DOMAIN f.voltage_sources : f.voltage_sources[k].id = comp.id}
    IN  IF found = {} THEN RZero
        ELSE vs_currents[(CHOOSE k \in found : \A j \in found : k <= j) - 1]

\* _calculate_component_result with the voltage taken from node2 to node1
calculate_component_result_reversed(f, comp, voltages, vs_currents) ==
    LET v1 == voltage_at(voltages, comp.node1)
        v2 == voltage_at(voltages, comp.node2)
        voltage == RSub(v2, v1)
        current == IF comp.kind = "Resistor" THEN RDiv(voltage, comp.value)
                   ELSE IF comp.kind = "VoltageSource"
                      THEN vs_current_of(f, comp, vs_currents)
                   ELSE comp.value
        power == RMul(voltage, current)
    IN  [id |-> comp.id,
         type |-> type_name(comp.kind),
         value |-> comp.value,
         node1 |-> comp.node1,
         node2 |-> comp.node2,
         voltage |-> voltage,
         current |-> current,
         power |-> power,
         description |-> get_power_description(power)]

\* CircuitSolver._calculate_component_result, for a resistor of value # 0
calculate_component_result(f, comp, voltages, vs_currents) ==
    LET v1 == voltage_at(voltages, comp.node1)
        v2 == voltage_at(voltages, comp.node2)
        voltage == RSub(v1, v2)
        current == IF comp.kind = "Resistor" THEN RDiv(voltage, comp.value)
                   ELSE IF comp.kind = "VoltageSource"
                      THEN vs_current_of(f, comp, vs_currents)
                   ELSE comp.value
        power == RMul(voltage, current)
    IN  [id |-> comp.id,
         type |-> type_name(comp.kind),
         value |-> comp.value,
         node1 |-> comp.node1,
         node2 |-> comp.node2,
         voltage |-> voltage,
         current |-> current,
         power |-> power,
         description |-> get_power_description(power)]

\* np.max(np.abs(residual)) raises ValueError on a residual of size zero
max_error_raises(residual) == DOMAIN residual = {}

\* CircuitSolver._build_matrix_info: when np.max raises, the bare except
\* returns the fallback
build_matrix_info(G, Z, X) ==
    LET residual == [r \in DOMAIN Z |-> RSub(MatVec(G, X)[r], Z[r])]
    IN  IF max_error_raises(residual)
           THEN [conductance_matrix |-> <<>>,
                 current_vector |-> <<>>,
                 voltage_solution |-> <<>>,
                 steps |-> <<"Matrix solution data unavailable">>,
                 verification |-> [residual |-> <<>>, max_error |-> RZero]]
           ELSE [conductance_matrix |-> G,
                 current_vector |-> Z,
                 voltage_solution |-> X,
                 steps |-> <<"Constructed conductance matrix from resistors",
                             "Added current source contributions to source vector",
                             "Added voltage source constraints and variables",
                             "Solved system using numpy.linalg.solve",
                             "Verified solution with residual analysis">>,
                 verification |-> [residual |-> residual,
                                   max_error |-> MaxAbs(residual)]]

\* CircuitSolver._package_solution over the components comps of the model;
\* voltage / 0.0 for a resistor of value 0 raises
package_solution(f, comps, node_voltages, vs_currents, G, Z) ==
    LET voltages == voltages_of(f, node_voltages)
        component_results ==
            [k \in DOMAIN comps |->
                calculate_component_result(f, comps[k], voltages, vs_currents)]
        total_power == RSum([k \in DOMAIN comps |-> component_results[k].power],
                            1, Len(comps))
        X == [i \in DOMAIN Z |->
                 IF i < f.num_nodes THEN node_voltages[i]
                                    ELSE vs_currents[i - f.num_nodes]]
    IN  IF \E k \in DOMAIN comps :
              comps[k].kind = "Resistor" /\ comps[k].value = RZero
           THEN [raised |-> TRUE, exc |-> "ZeroDivisionError",
                 msg |-> "float division by zero"]
           ELSE [raised |-> FALSE,
                 val |-> [status |-> "success",
                          voltages |-> voltages,
                          components |-> component_results,
                          total_power |-> total_power,
                          matrix_solution |-> build_matrix_info(G, Z, X),
                          summary |-> [total_components |-> Len(comps),
                                       solved_nodes |-> Cardinality(DOMAIN voltages),
                                       power_balance |->
                                           BelowBalanceThreshold(total_power)]]]

\* CircuitSolver._create_error_response
create_error_response(message) ==
    [status |-> "error",
     message |-> message,
     suggestion |-> "Check circuit connectivity and component values"]

\* every failure reported by the generic except clause
solve_except_generic(e) == create_error_response("Solver error: " \o e.msg)

\* the two except clauses of CircuitSolver.solve
solve_except(e) ==
    IF e.exc = "LinAlgError"
       THEN create_error_response(
                "Singular matrix: Circuit may be unsolvable. " \o e.msg)
       ELSE create_error_response("Solver error: " \o e.msg)

\* CircuitSolver.solve on the solver f over the components comps of its
\* model: the phases entered, in order, and the value returned
solve_run(f, comps) ==
    LET a == build_mna_system(f)
        X == linalg_solve(a.G, a.Z)
        node_voltages == [i \in 0 .. f.num_nodes - 1 |-> X.val[i]]
        vs_currents == [k \in 0 .. f.num_vs - 1 |-> X.val[f.num_nodes + k]]
        p == package_solution(f, comps, node_voltages, vs_currents, a.G, a.Z)
    IN  IF a.raised
           THEN [trace |-> <<"assembly">>, ret |-> solve_except(a)]
        ELSE IF X.raised
           THEN [trace |-> <<"assembly", "linear solve">>, ret |-> solve_except(X)]
        ELSE IF p.raised
           THEN [trace |-> <<"assembly", "linear solve", "packaging">>,
                 ret |-> solve_except(p)]
        ELSE [trace |-> <<"assembly", "linear solve", "packaging">>,
              ret |-> p.val]

(* ---------------------------------------------------------- solver action *)
\* a solve that also stores the reference node in the node set of the model
solve_storing_reference ==
    /\ last.op \in {"CircuitSolver", "solve"}
    /\ LET f == IF last.op = "CircuitSolver" THEN last.ret ELSE last.self
           r == solve_run(f, components)
       IN  last' = [op |-> "solve", self |-> f, trace |-> r.trace, ret |-> r.ret]
    /\ nodes' = nodes \cup {reference_node}
    /\ UNCHANGED <<components, graph, reference_node>>

\* solver.solve() on the solver made by the call before, or once more on the
\* solver of the solve before
solve ==
    /\ last.op \in {"CircuitSolver", "solve"}
    /\ LET f == IF last.op = "CircuitSolver" THEN last.ret ELSE last.self
           r == solve_run(f, components)
       IN  last' = [op |-> "solve", self |-> f, trace |-> r.trace, ret |-> r.ret]
    /\ UNCHANGED <<components, graph, nodes, reference_node>>


(* ------------------------------------------------------ equation builder *)
\* the number of tenths nearest to the rational a >= 0 (a tie to the even one)
Tenths(a) ==
    LET q == (10 * a[1]) \div a[2]
        r == (10 * a[1]) % a[2]
    IN  IF 2 * r > a[2] THEN q + 1
        ELSE IF 2 * r = a[2] THEN q + (q % 2)
        ELSE q

\* f"{v:.1f}": the sign and the digits, as a number of tenths
format_1f(v) == [negative |-> v[1] < 0, tenths |-> Tenths(RAbs(v))]

\* f"{-v:.1f}": the negation of the float 0.0 is -0.0, printed "-0.0"
format_negated_1f(v) == [negative |-> v[1] >= 0, tenths |-> Tenths(RAbs(v))]

\* EquationBuilder._build_resistor_term
build_resistor_term(ref, resistor, node, neighbor) ==
    IF neighbor = ref
       THEN [form |-> "frac", plus |-> node,
             value |-> format_1f(resistor.value)]
       ELSE [form |-> "frac", plus |-> node, minus |-> neighbor,
             value |-> format_1f(resistor.value)]

\* EquationBuilder._build_current_source_term; "" is [form |-> "empty"]
build_current_source_term(current_source, node) ==
    IF current_source.node1 = node
       THEN [form |-> "value", value |-> format_1f(current_source.value)]
    ELSE IF current_source.node2 = node
       THEN [form |-> "negated", value |-> format_1f(current_source.value)]
    ELSE [form |-> "empty"]

\* the text of the term starts with "-"
StartsWithMinus(term) == term.form = "value" /\ term.value.negative

\* " + ".join(equation_terms).replace("+ -", "- "): every term with the
\* separator written before it
join_terms(terms) ==
    [k \in DOMAIN terms |->
        IF k = 1 THEN [sep |-> "", term |-> terms[k]]
        ELSE IF StartsWithMinus(terms[k])
           THEN [sep |-> " - ",
                 term |-> [terms[k] EXCEPT !.value.negative = FALSE]]
        ELSE [sep |-> " + ", term |-> terms[k]]]

\* the terms a regular node collects from its (component, neighbor) pairs
RECURSIVE regular_node_terms(_, _, _)
regular_node_terms(ref, node, pairs) ==
    IF pairs = <<>> THEN <<>>
    ELSE LET comp == Head(pairs)[1]
             neighbor == Head(pairs)[2]
             term == IF comp.kind = "Resistor"
                        THEN build_resistor_term(ref, comp, node, neighbor)
                        ELSE build_current_source_term(comp, node)
             rest == regular_node_terms(ref, node, Tail(pairs))
         IN  IF comp.kind = "VoltageSource" \/ term.form = "empty"
                THEN rest
                ELSE <<term>> \o rest

\* EquationBuilder._build_regular_node_equations over the nodes of order
RECURSIVE build_regular_node_equations(_, _, _, _)
build_regular_node_equations(g, ref, supernode_nodes, order) ==
    IF order = <<>> THEN <<>>
    ELSE LET node == Head(order)
             equation_terms ==
                 regular_node_terms(ref, node,
                                    get_components_connected_to_node(g, node))
             rest == build_regular_node_equations(g, ref, supernode_nodes,
                                                  Tail(order))
         IN  IF node \in supernode_nodes \/ equation_terms = <<>>
                THEN rest
                ELSE <<[label |-> "Node", node |-> node,
                        terms |-> join_terms(equation_terms)]>> \o rest

\* the terms one node of a supernode adds: the components to a neighbour
\* outside the supernode
RECURSIVE supernode_node_terms(_, _, _, _)
supernode_node_terms(ref, supernode, node, pairs) ==
    IF pairs = <<>> THEN <<>>
    ELSE LET comp == Head(pairs)[1]
             neighbor == Head(pairs)[2]
             rest == supernode_node_terms(ref, supernode, node, Tail(pairs))
         IN  IF comp.kind = "VoltageSource" \/ neighbor \in supernode
                THEN rest
             ELSE IF comp.kind = "Resistor"
                THEN <<build_resistor_term(ref, comp, node, neighbor)>> \o rest
             ELSE IF comp.node1 = node
                THEN <<[form |-> "value", value |-> format_1f(comp.value)]>>
                         \o rest
             ELSE IF comp.node2 = node
                THEN <<[form |-> "negated", value |-> format_1f(comp.value)]>>
                         \o rest
             ELSE rest

\* the terms of a supernode: those of its nodes, in the iteration order of
\* the set
RECURSIVE supernode_terms(_, _, _, _)
supernode_terms(g, ref, supernode, order) ==
    IF order = <<>> THEN <<>>
    ELSE supernode_node_terms(ref, supernode, Head(order),
                              get_components_connected_to_node(g, Head(order)))
           \o supernode_terms(g, ref, supernode, Tail(order))

\* EquationBuilder._build_ungrounded_supernode_equations
RECURSIVE build_ungrounded_supernode_equations(_, _, _)
build_ungrounded_supernode_equations(g, ref, supernodes) ==
    IF supernodes = <<>> THEN <<>>
    ELSE LET supernode == Head(supernodes)
             equation_terms ==
                 supernode_terms(g, ref, supernode, SetOrder(supernode))
             rest == build_ungrounded_supernode_equations(g, ref,
                                                          Tail(supernodes))
         IN  IF ref \in supernode \/ equation_terms = <<>>
                THEN rest
                ELSE <<[label |-> "Supernode", nodes |-> sorted(supernode),
                        terms |-> join_terms(equation_terms)]>> \o rest

\* _build_voltage_source_constraints printing val where the code prints -val
build_voltage_source_constraints_unsigned(ref, voltage_sources) ==
    [k \in DOMAIN voltage_sources |->
        LET vs == voltage_sources[k]
        IN  IF vs.node1 = ref
               THEN [lhs |-> <<vs.node2>>, rhs |-> format_1f(vs.value)]
            ELSE IF vs.node2 = ref
               THEN [lhs |-> <<vs.node1>>, rhs |-> format_1f(vs.value)]
            ELSE [lhs |-> <<vs.node1, vs.node2>>, rhs |-> format_1f(vs.value)]]

\* EquationBuilder._build_voltage_source_constraints
build_voltage_source_constraints(ref, voltage_sources) ==
    [k \in DOMAIN voltage_sources |->
        LET vs == voltage_sources[k]
        IN  IF vs.node1 = ref
               THEN [lhs |-> <<vs.node2>>, rhs |-> format_negated_1f(vs.value)]
            ELSE IF vs.node2 = ref
               THEN [lhs |-> <<vs.node1>>, rhs |-> format_1f(vs.value)]
            ELSE [lhs |-> <<vs.node1, vs.node2>>, rhs |-> format_1f(vs.value)]]

\* EquationBuilder._get_all_supernode_nodes
get_all_supernode_nodes(supernodes) ==
    UNION {supernodes[k] : k \in DOMAIN supernodes}

\* EquationBuilder(model, supernodes).build_equations()
build_equations(comps, g, ns, ref, supernodes) ==
    build_regular_node_equations(g, ref, get_all_supernode_nodes(supernodes),
                                 get_non_reference_nodes(ns, ref))
      \o build_ungrounded_supernode_equations(g, ref, supernodes)
      \o build_voltage_source_constraints(ref, voltage_sources_of(comps))

\* EquationBuilder(model, nodal_analysis.supernodes).build_equations(), on
\* the supernodes of the analysis made by the call before
EquationBuilder ==
    /\ last.op = "NodalAnalysis"
    /\ last' = [op |-> "build_equations",
                ret |-> build_equations(components, graph, nodes,
                                        reference_node, last.ret.supernodes)]
    /\ UNCHANGED <<components, graph, nodes, reference_node>>


(* --------------------------------------------------------- request values *)
\* A JSON value of a request body is a record with a tag: null, int, float
\* (val a rational), str, list (val a sequence) or dict (val a function
\* from its keys).
JNull == [tag |-> "null"]
JInt(n) == [tag |-> "int", val |-> n]
JFloat(q) == [tag |-> "float", val |-> q]
JStr(s) == [tag |-> "str", val |-> s]
JList(xs) == [tag |-> "list", val |-> xs]
JDict(d) == [tag |-> "dict", val |-> d]

\* the tags of the JSON values
JTags == {"null", "int", "float", "str", "list", "dict"}

\* bool(data) of Python
truthy(j) ==
    IF j.tag = "null" THEN FALSE
    ELSE IF j.tag = "int" THEN j.val # 0
    ELSE IF j.tag = "float" THEN j.val[1] # 0
    ELSE IF j.tag = "str" THEN j.val # ""
    ELSE IF j.tag = "list" THEN j.val # <<>>
    ELSE DOMAIN j.val # {}

\* the integer literals among the strings offered
IntLiterals == [s \in {"0", "1", "2"} |->
                   IF s = "0" THEN 0 ELSE IF s = "1" THEN 1 ELSE 2]

\* int(x): an int is kept, a float is truncated towards zero, a string is
\* parsed as an integer literal
py_int(j) ==
    IF j.tag = "int" THEN [raised |-> FALSE, val |-> j.val]
    ELSE IF j.tag = "float"
       THEN [raised |-> FALSE,
             val |-> IF j.val[1] >= 0 THEN j.val[1] \div j.val[2]
                     ELSE 0 - ((0 - j.val[1]) \div j.val[2])]
    ELSE IF j.tag = "str"
       THEN IF j.val \in DOMAIN IntLiterals
               THEN [raised |-> FALSE, val |-> IntLiterals[j.val]]
               ELSE [raised |-> TRUE, exc |-> "ValueError",
                     msg |-> "invalid literal for int() with base 10: '"
                             \o j.val \o "'"]
    ELSE [raised |-> TRUE, exc |-> "TypeError",
          msg |-> "int() argument must be a string, a bytes-like object or a real number"]

\* float(x): a number is kept, a string is parsed as a number
py_float(j) ==
    IF j.tag = "int" THEN [raised |-> FALSE, val |-> <<j.val, 1>>]
    ELSE IF j.tag = "float" THEN [raised |-> FALSE, val |-> j.val]
    ELSE IF j.tag = "str"
       THEN IF j.val \in DOMAIN IntLiterals
               THEN [raised |-> FALSE, val |-> <<IntLiterals[j.val], 1>>]
               ELSE [raised |-> TRUE, exc |-> "ValueError"]
    ELSE [raised |-> TRUE, exc |-> "TypeError"]

\* str(x) of the values offered as a component value
py_str(j) ==
    IF j.tag = "str" THEN j.val
    ELSE IF j.tag = "null" THEN "None"
    ELSE IF j.tag = "int" THEN ToString(j.val)
    ELSE "..."

\* s.upper().strip() of the type names offered
upper_strip(s) ==
    IF s = "r" THEN "R"
    ELSE IF s = "vs" THEN "VS"
    ELSE IF s = " Current Source " THEN "CURRENT SOURCE"
    ELSE IF s = "diode" THEN "DIODE"
    ELSE s

\* app.py COMPONENT_MAP
COMPONENT_MAP ==
    [k \in {"RESISTOR", "VOLTAGE SOURCE", "CURRENT SOURCE", "VS", "CS", "R",
            "VOLTAGE", "CURRENT"} |->
        IF k \in {"RESISTOR", "R"} THEN "Resistor"
        ELSE IF k \in {"VOLTAGE SOURCE", "VS", "VOLTAGE"} THEN "VoltageSource"
        ELSE "CurrentSource"]

(* ---------------------------------------------------------- request model *)
\* CircuitModel(): the model as a value
EmptyModel ==
    [components |-> <<>>, graph |-> EmptyGraph, nodes |-> {},
     reference_node |-> 0]

\* CircuitModel.add_component on the model m
model_add_component(m, c) ==
    [components |-> Append(m.components, c),
     graph |-> add_edge(m.graph, c.node1, c.node2, c.id, c),
     nodes |-> m.nodes \cup {c.node1, c.node2},
     reference_node |-> m.reference_node]

\* CircuitModel.set_reference_node(node) on the model m, node an integer
model_set_reference_node(m, node) ==
    [components |-> m.components,
     graph |-> IF node \notin m.nodes THEN add_node(m.graph, node) ELSE m.graph,
     nodes |-> m.nodes \cup {node},
     reference_node |-> node]

required_keys == {"type", "value", "nodeA", "nodeB"}

\* one iteration of the loop of _build_circuit_model: the record comp_data
\* at index i (from 0) added to the model m, or the exception raised
build_component(m, i, comp_data) ==
    LET Raise(exc, msg) == [raised |-> TRUE, exc |-> exc, msg |-> msg, model |-> m]
        d == comp_data.val
        comp_type == upper_strip(d["type"].val)
        value == py_float(d["value"])
        node1 == py_int(d["nodeA"])
        node2 == py_int(d["nodeB"])
    IN  IF comp_data.tag # "dict"
           THEN Raise("ValueError", "Component at index " \o ToString(i)
                                    \o " is not a valid object.")
        ELSE IF ~ (required_keys \subseteq DOMAIN d)
           THEN Raise("KeyError", "Component at index " \o ToString(i)
                                  \o " is missing required keys")
        ELSE IF d["type"].tag # "str"
           THEN Raise("AttributeError", "object has no attribute 'upper'")
        ELSE IF comp_type \notin DOMAIN COMPONENT_MAP
           THEN Raise("ValueError", "Unknown component type: " \o d["type"].val)
        ELSE IF value.raised
           THEN Raise("ValueError", "Invalid 'value' for component "
                                    \o ToString(i) \o ": " \o py_str(d["value"])
                                    \o ". Must be a number.")
        ELSE IF node1.raised THEN Raise(node1.exc, node1.msg)
        ELSE IF node2.raised THEN Raise(node2.exc, node2.msg)
        ELSE [raised |-> FALSE,
              model |-> model_add_component(m,
                            Component(COMPONENT_MAP[comp_type],
                                      Len(m.components) + 1, value.val,
                                      IntInput(node1.val), IntInput(node2.val)))]

\* the loop of _build_circuit_model from the record at index i on
RECURSIVE build_components_from(_, _, _)
build_components_from(m, i, records) ==
    IF i >= Len(records) THEN [raised |-> FALSE, model |-> m]
    ELSE LET b == build_component(m, i, records[i + 1])
         IN  IF b.raised THEN b
             ELSE build_components_from(b.model, i + 1, records)

\* app.py _build_circuit_model
build_circuit_model(components_data) ==
    IF components_data.tag # "list"
       THEN [raised |-> TRUE, exc |-> "ValueError",
             msg |-> "'components' must be a list.", model |-> EmptyModel]
       ELSE LET b == build_components_from(EmptyModel, 0, components_data.val)
            IN  IF b.raised THEN b
                ELSE [raised |-> FALSE,
                      model |-> model_set_reference_node(b.model, 0)]

\* app.py build_circuit_analysis: the summary of the analysis and the
\* equations; the texts of the presentation are left out
build_circuit_analysis(m) ==
    LET summary == analysis_summary(m.components, m.nodes, m.reference_node)
    IN  [circuitStatistics |->
             [totalNodes |-> Cardinality(m.nodes),
              referenceNode |-> m.reference_node,
              nonReferenceNodes |-> summary.non_reference_nodes,
              supernodes |-> summary.supernodes,
              total |-> Len(m.components)],
         equations |-> build_equations(m.components, m.graph, m.nodes,
                                       m.reference_node, summary.supernodes)]

\* "components" in data
has_components(data) ==
    IF data.tag = "dict" THEN "components" \in DOMAIN data.val
    ELSE IF data.tag = "list"
       THEN \E k \in DOMAIN data.val : data.val[k] = JStr("components")
    ELSE data.val = "components"

\* the except clauses of solve_circuit
request_except(e) ==
    IF e.exc \in {"KeyError", "ValueError", "TypeError"}
       THEN [status |-> 400,
             body |-> [success |-> FALSE,
                       error |-> "Invalid input: "
                                 \o (IF e.exc = "KeyError"
                                        THEN "'" \o e.msg \o "'" ELSE e.msg)]]
       ELSE [status |-> 500,
             body |-> [success |-> FALSE,
                       error |-> "An unexpected server error occurred: "
                                 \o e.msg]]

\* the end of the try block of solve_circuit: the response for the model m
\* with its analysis and the solution of solver.solve()
solve_circuit_respond(m, analysis_data, solution) ==
    IF solution.status = "error"
       THEN [status |-> 400,
             body |-> [success |-> FALSE,
                       error |-> solution.message,
                       suggestion |-> solution.suggestion],
             model |-> m, solved |-> TRUE]
       ELSE [status |-> 200,
             body |-> [success |-> TRUE,
                       analysis |-> analysis_data,
                       solution |-> solution,
                       circuit_info |->
                           [total_components |-> Len(m.components),
                            total_nodes |-> Cardinality(m.nodes),
                            non_reference_nodes |->
                                get_non_reference_nodes(m.nodes, m.reference_node),
                            reference_node |-> m.reference_node,
                            supernodes |->
                                analysis_data.circuitStatistics.supernodes]],
             model |-> m, solved |-> TRUE]

\* the try block of solve_circuit on the solver of the model m
solve_circuit_solve(m, f) ==
    solve_circuit_respond(m, build_circuit_analysis(m),
                          solve_run(f, m.components).ret)

\* the try block of solve_circuit from the outcome b of _build_circuit_model
solve_circuit_try(b) ==
    IF b.raised
       THEN request_except(b) @@ [model |-> b.model, solved |-> FALSE]
       ELSE solve_circuit_solve(b.model,
                                solver_fields(b.model.components, b.model.nodes,
                                              b.model.reference_node))

\* app.py solve_circuit on the body data: the response, the model built
\* and whether solver.solve() was called
solve_circuit_run(data) ==
    IF ~ truthy(data)
       THEN [status |-> 400,
             body |-> [success |-> FALSE,
                       error |-> "Invalid input. 'components' key is missing."],
             model |-> EmptyModel, solved |-> FALSE]
    ELSE IF data.tag \in {"int", "float"}
       THEN [status |-> 500, body |-> [unhandled |-> "TypeError"],
             model |-> EmptyModel, solved |-> FALSE]
    ELSE IF ~ has_components(data)
       THEN [status |-> 400,
             body |-> [success |-> FALSE,
                       error |-> "Invalid input. 'components' key is missing."],
             model |-> EmptyModel, solved |-> FALSE]
    ELSE IF data.tag # "dict"
       THEN request_except([exc |-> "TypeError",
                            msg |-> "indices must be integers"])
              @@ [model |-> EmptyModel, solved |-> FALSE]
    ELSE solve_circuit_try(build_circuit_model(data.val["components"]))

(* --------------------------------------------------------- request action *)
\* the end of a request: the circuit is the model the request built and the
\* response r is what the client receives
solve_circuit_return(data, r) ==
    /\ components' = r.model.components
    /\ graph' = r.model.graph
    /\ nodes' = r.model.nodes
    /\ reference_node' = r.model.reference_node
    /\ last' = [op |-> "solve_circuit", data |-> data,
                ret |-> [status |-> r.status, body |-> r.body],
                solved |-> r.solved]

\* one request POST /api/solve-circuit: request.get_json() gives the JSON
\* value data, and the handler runs on it
solve_circuit(data) ==
    /\ data.tag \in JTags
    /\ solve_circuit_return(data, solve_circuit_run(data))


(* ------------------------------------------------------- specifications *)
\* any circuit of at most MaxComps components over the nodes 0..MaxNode,
\* the reference moved and the queries called at any time
Next ==
    \/ /\ Len(components) < MaxComps
       /\ \E k \in Kinds, v \in Values, a \in NodeInputs, b \in NodeInputs :
             add_component(k, v, a, b)
    \/ \E n \in NodeInputs : set_reference_node(n)
    \/ Call_get_non_reference_nodes
    \/ \E n \in NodeIds : Call_get_components_connected_to_node(n)
    \/ NodalAnalysis
    \/ CircuitSolver

Spec == Init /\ [][Next]_vars

\* the circuits of resistors and voltage sources of one value
NextTopology ==
    \/ /\ Len(components) < MaxComps
       /\ \E k \in TopologyKinds, v \in TopologyValues,
             a \in IntInputs, b \in IntInputs : add_component(k, v, a, b)
    \/ \E n \in NodeInputs : set_reference_node(n)
    \/ Call_get_non_reference_nodes
    \/ NodalAnalysis
    \/ CircuitSolver

SpecTopology == Init /\ [][NextTopology]_vars

\* the position in Scenario5 of a component of the circuit
Scenario5Index(c) ==
    CHOOSE i \in DOMAIN Scenario5 :
        Scenario5[i] = <<c.kind, c.value, c.node1, c.node2>>

\* backend/test.py test_equations: components of Scenario5 added in the
\* order of the test (any of them may be left out), the reference set to 0
NextScenario5 ==
    \/ \E i \in DOMAIN Scenario5 :
          /\ \A j \in DOMAIN components : Scenario5Index(components[j]) < i
          /\ add_component(Scenario5[i][1], Scenario5[i][2],
                           IntInput(Scenario5[i][3]), IntInput(Scenario5[i][4]))
    \/ set_reference_node(IntInput(0))
    \/ NodalAnalysis

SpecScenario5 == Init /\ [][NextScenario5]_vars

\* the component menu of the solver specification, as (kind, value, node1,
\* node2): the sources and resistors of the end-to-end scenarios on the
\* nodes 0..2, a resistor of value 0 and a negative resistor
SolveMenu ==
    << <<"VoltageSource", <<5, 1>>, 1, 0>>,
       <<"VoltageSource", <<6, 1>>, 1, 0>>,
       <<"VoltageSource", <<4, 1>>, 2, 1>>,
       <<"Resistor", <<100, 1>>, 1, 0>>,
       <<"Resistor", <<100, 1>>, 1, 2>>,
       <<"Resistor", <<50, 1>>, 2, 0>>,
       <<"Resistor", <<0, 1>>, 1, 0>>,
       <<"Resistor", <<0 - 100, 1>>, 1, 0>>,
       <<"CurrentSource", <<1, 10>>, 0, 1>> >>
\* the reference nodes chosen in the solver specification
SolveReferences == {IntInput(0), IntInput(1)}

\* circuits of at most SolveMaxComps components of SolveMenu, in any order
\* and with repetition, analysed and solved at any time
NextSolve ==
    \/ /\ Len(components) < SolveMaxComps
       /\ \E i \in DOMAIN SolveMenu :
             add_component(SolveMenu[i][1], SolveMenu[i][2],
                           IntInput(SolveMenu[i][3]), IntInput(SolveMenu[i][4]))
    \/ \E n \in SolveReferences : set_reference_node(n)
    \/ NodalAnalysis
    \/ EquationBuilder
    \/ CircuitSolver
    \/ solve

SpecSolve == Init /\ [][NextSolve]_vars


\* a netlist record
Record(type, value, nodeA, nodeB) ==
    JDict([type |-> type, value |-> value, nodeA |-> nodeA, nodeB |-> nodeB])

\* the records offered in a request: well-formed ones, ones with the token
\* GND, and one for every kind of input error
RequestRecords ==
    << Record(JStr("R"), JInt(100), JInt(1), JInt(0)),
       Record(JStr("r"), JInt(100), JInt(0), JInt(1)),
       Record(JStr("vs"), JInt(5), JInt(1), JInt(0)),
       Record(JStr("VS"), JInt(6), JInt(1), JInt(0)),
       Record(JStr(" Current Source "), JFloat(<<1, 10>>), JInt(0), JInt(1)),
       Record(JStr("R"), JInt(0), JInt(1), JInt(0)),
       Record(JStr("R"), JInt(100), JStr("GND"), JInt(1)),
       Record(JStr("R"), JInt(100), JInt(1), JStr("gnd")),
       JInt(7),
       JDict([type |-> JStr("R"), value |-> JInt(100), nodeA |-> JInt(1)]),
       Record(JStr("diode"), JInt(100), JInt(1), JInt(0)),
       Record(JInt(5), JInt(100), JInt(1), JInt(0)),
       Record(JStr("R"), JStr("abc"), JInt(1), JInt(0)),
       Record(JStr("R"), JNull, JInt(1), JInt(0)),
       Record(JStr("R"), JInt(100), JFloat(<<3, 2>>), JInt(0)),
       Record(JStr("R"), JInt(100), JInt(1), JStr("x")) >>

\* the bodies offered that are not a dictionary with a list of components
MalformedBodies ==
    << JNull,
       JInt(5),
       JDict(<<>>),
       JDict([netlist |-> JList(<<>>)]),
       JDict([components |-> JNull]),
       JDict([components |-> JStr("R")]),
       JDict([components |-> Record(JStr("R"), JInt(100), JInt(1), JInt(0))]),
       JList(<<JStr("components")>>),
       JStr("components") >>

\* the body with the records of RequestRecords at the positions picks
Body(picks) ==
    JDict([components |-> JList([k \in DOMAIN picks |-> RequestRecords[picks[k]]])])

\* requests with a malformed body or with at most RequestMaxComps records
NextRequest ==
    \/ \E i \in DOMAIN MalformedBodies : solve_circuit(MalformedBodies[i])
    \/ \E n \in 0 .. RequestMaxComps :
          \E picks \in [1 .. n -> DOMAIN RequestRecords] :
             solve_circuit(Body(picks))

SpecRequest == Init /\ [][NextRequest]_vars



\* the component menu of the assembly specification, as (kind, value, node1,
\* node2): sources and resistors on the nodes 0..2, among them a voltage
\* source and a resistor with both terminals on one node and a resistor of
\* value 0
StampMenu ==
    << <<"VoltageSource", <<5, 1>>, 1, 0>>,
       <<"VoltageSource", <<4, 1>>, 2, 1>>,
       <<"VoltageSource", <<3, 1>>, 1, 1>>,
       <<"Resistor", <<100, 1>>, 1, 0>>,
       <<"Resistor", <<50, 1>>, 1, 2>>,
       <<"Resistor", <<100, 1>>, 2, 2>>,
       <<"Resistor", <<0, 1>>, 2, 0>>,
       <<"CurrentSource", <<1, 10>>, 0, 1>>,
       <<"CurrentSource", <<2, 1>>, 1, 2>> >>

\* circuits of at most StampMaxComps components of StampMenu, in any order
\* and with repetition, with a solver made and run at any time
NextStamp ==
    \/ /\ Len(components) < StampMaxComps
       /\ \E i \in DOMAIN StampMenu :
             add_component(StampMenu[i][1], StampMenu[i][2],
                           IntInput(StampMenu[i][3]), IntInput(StampMenu[i][4]))
    \/ \E n \in SolveReferences : set_reference_node(n)
    \/ CircuitSolver
    \/ solve

SpecStamp == Init /\ [][NextStamp]_vars


(* ---------------------------------------------------------------- claims *)
\* the full circuit of test_equations has been analysed
Scenario5Analysed ==
    /\ last.op = "NodalAnalysis"
    /\ Len(components) = Len(Scenario5)
    /\ reference_node = 0

\* C1 as stated: for the circuit of scenario 5 with reference 0 the analysis
\* reports supernodes {{2,4}}, no grounded supernode, ungrounded supernodes
\* {{2,4}}, 3 KCL equations (nodes 1 and 3 and the supernode), 2 constraint
\* equations and 5 equations in total.
C1_Scenario5AsStated ==
    Scenario5Analysed =>
        /\ Range(last.ret.supernodes) = {{2, 4}}
        /\ last.ret.grounded_supernodes = <<>>
        /\ Range(last.ret.ungrounded_supernodes) = {{2, 4}}
        /\ Range(last.ret.regular_nodes) = {1, 3}
        /\ last.ret.num_kcl_equations = 3
        /\ last.ret.num_constraint_equations = 2
        /\ last.ret.total_equations = 5

\* C1 amended: for the circuit of scenario 5 with reference 0 the analysis
\* reports supernodes {{0,1},{2,4}}, grounded supernodes {{0,1}}, ungrounded
\* supernodes {{2,4}}, the one regular node 3, 2 KCL equations (node 3 and
\* the supernode {2,4}), 2 constraint equations and 4 equations in total.
C1_Scenario5Analysis ==
    Scenario5Analysed =>
        /\ Len(last.ret.supernodes) = 2
        /\ Range(last.ret.supernodes) = {{0, 1}, {2, 4}}
        /\ last.ret.grounded_supernodes = << {0, 1} >>
        /\ last.ret.ungrounded_supernodes = << {2, 4} >>
        /\ last.ret.regular_nodes = << 3 >>
        /\ last.ret.num_kcl_equations = 2
        /\ last.ret.num_constraint_equations = 2
        /\ last.ret.total_equations = 4

C1_Witness ==
    /\ Scenario5Analysed
    /\ nodes = {0, 1, 2, 3, 4}
    /\ last.ret.num_voltage_sources = 2

\* the unknowns of a circuit: its non-reference nodes and its voltage sources
NumUnknowns ==
    Cardinality(nodes \ {reference_node})
      + Cardinality({i \in DOMAIN components :
                        components[i].kind = "VoltageSource"})

\* the sum of |S| - 1 over the supernodes S of a list
RECURSIVE MergedNodes(_)
MergedNodes(sns) ==
    IF sns = <<>> THEN 0
    ELSE (Cardinality(Head(sns)) - 1) + MergedNodes(Tail(sns))

\* C2 as stated: for every circuit the reported equation count equals the
\* number of unknowns, num_kcl_equations + num_constraint_equations =
\* |non_reference_nodes| + |voltage_sources|, i.e. |regular_nodes| +
\* |ungrounded_supernodes| = |non_reference_nodes|.
C2_EquationCountAsStated ==
    last.op = "NodalAnalysis" =>
        /\ last.ret.num_kcl_equations + last.ret.num_constraint_equations
             = NumUnknowns
        /\ Len(last.ret.regular_nodes) + Len(last.ret.ungrounded_supernodes)
             = Cardinality(nodes \ {reference_node})

\* C2 amended: for every circuit |regular_nodes| + |ungrounded_supernodes| =
\* |non_reference_nodes| minus the sum over all supernodes S of (|S| - 1), so
\* the reported equation count is the number of unknowns minus that sum, and
\* equals the number of unknowns exactly when the circuit has no supernode.
C2_EquationCount ==
    last.op = "NodalAnalysis" =>
        LET merged == MergedNodes(last.ret.supernodes)
        IN  /\ Len(last.ret.regular_nodes) + Len(last.ret.ungrounded_supernodes)
                 = Cardinality(nodes \ {reference_node}) - merged
            /\ last.ret.num_kcl_equations
                 = Len(last.ret.regular_nodes)
                     + Len(last.ret.ungrounded_supernodes)
            /\ last.ret.total_equations
                 = last.ret.num_kcl_equations + last.ret.num_constraint_equations
            /\ last.ret.total_equations = NumUnknowns - merged
            /\ (last.ret.total_equations = NumUnknowns)
                 <=> (last.ret.supernodes = <<>>)

C2_Witness ==
    /\ last.op = "NodalAnalysis"
    /\ Len(last.ret.grounded_supernodes) = 1
    /\ Len(last.ret.regular_nodes) = 1
    /\ last.ret.total_equations < NumUnknowns

\* the number of classes of the analysis a node is in: once per position of
\* regular_nodes holding it and once per listed supernode containing it
ClassesOf(a, n) ==
    Cardinality({i \in DOMAIN a.regular_nodes : a.regular_nodes[i] = n})
      + Cardinality({i \in DOMAIN a.ungrounded_supernodes :
                        n \in a.ungrounded_supernodes[i]})
      + Cardinality({i \in DOMAIN a.grounded_supernodes :
                        n \in a.grounded_supernodes[i]})

\* C3: for every circuit every non-reference node is in exactly one of
\* regular_nodes, one ungrounded supernode or one grounded supernode; no
\* node is in two supernodes, and the classes hold nothing but the nodes of
\* the circuit.
C3_SupernodePartition ==
    last.op = "NodalAnalysis" =>
        LET a == last.ret
        IN  /\ \A n \in nodes \ {reference_node} : ClassesOf(a, n) = 1
            /\ \A n \in nodes :
                  Cardinality({i \in DOMAIN a.supernodes : n \in a.supernodes[i]})
                    <= 1
            /\ Range(a.regular_nodes) \subseteq nodes \ {reference_node}
            /\ \A i \in DOMAIN a.ungrounded_supernodes :
                  a.ungrounded_supernodes[i] \subseteq nodes \ {reference_node}
            /\ \A i \in DOMAIN a.grounded_supernodes :
                  a.grounded_supernodes[i] \subseteq nodes

C3_Witness ==
    /\ last.op = "NodalAnalysis"
    /\ reference_node \in nodes
    /\ Len(last.ret.ungrounded_supernodes) = 1
    /\ Len(last.ret.non_reference_nodes) = 2
    /\ last.ret.regular_nodes = <<>>

\* the voltage sources of the circuit
VoltageSources == {c \in Range(components) : c.kind = "VoltageSource"}

\* S is joined by voltage sources: every split of S into two non-empty
\* parts is crossed by a voltage source
VsConnected(S) ==
    \A T \in SUBSET S :
        (T # {} /\ T # S) =>
            \E c \in VoltageSources :
                \/ c.node1 \in T /\ c.node2 \in S \ T
                \/ c.node2 \in T /\ c.node1 \in S \ T

\* no voltage source leaves S
VsClosed(S) ==
    \A c \in VoltageSources : (c.node1 \in S) <=> (c.node2 \in S)

\* C4: the supernodes are exactly the connected components of size >= 2 of
\* the graph on the circuit's nodes whose edges are the voltage-source
\* terminal pairs, each listed once; a supernode is grounded exactly when
\* it holds the reference node and ungrounded otherwise; a node joined to
\* no voltage source is in no supernode.
C4_SupernodesAreComponents ==
    last.op = "NodalAnalysis" =>
        LET a == last.ret
            SN == Range(a.supernodes)
        IN  /\ Len(a.supernodes) = Cardinality(SN)
            /\ \A S \in SN :
                  /\ Cardinality(S) >= 2
                  /\ S \subseteq nodes
                  /\ VsConnected(S)
                  /\ VsClosed(S)
            /\ \A c \in VoltageSources :
                  c.node1 # c.node2 =>
                      \E S \in SN : {c.node1, c.node2} \subseteq S
            /\ Range(a.grounded_supernodes)
                 = {S \in SN : reference_node \in S}
            /\ Range(a.ungrounded_supernodes)
                 = {S \in SN : reference_node \notin S}
            /\ Len(a.grounded_supernodes) + Len(a.ungrounded_supernodes)
                 = Len(a.supernodes)
            /\ \A n \in nodes :
                  (\A c \in VoltageSources : n \notin {c.node1, c.node2})
                      => \A S \in SN : n \notin S

C4_Witness ==
    /\ last.op = "NodalAnalysis"
    /\ \E i \in DOMAIN last.ret.supernodes :
          Cardinality(last.ret.supernodes[i]) = 3

\* C5 as stated: add_component rejects a component whose node1 equals
\* node2, so after any sequence of add_component and set_reference calls
\* every component of the circuit has two distinct terminals.
C5_NoSelfLoop ==
    \A i \in DOMAIN components : components[i].node1 # components[i].node2

\* C6 as stated: in every reachable state of a circuit, from construction
\* on, the reference node is a member of the node set.
C6_ReferenceInNodes == reference_node \in nodes

\* the terminals of the components of the circuit
Terminals == UNION {{c.node1, c.node2} : c \in Range(components)}

\* C7 as stated, in the states where the reference node is in the node set:
\* the node set is the union of the terminals of the components plus the
\* current reference node and nothing else.
C7_NodesAreTerminalsAndReference ==
    reference_node \in nodes => nodes = Terminals \cup {reference_node}

\* C8 as stated: a resistor whose value is <= 0 is rejected, no circuit
\* holds such a resistor.
C8_NoNonPositiveResistor ==
    \A i \in DOMAIN components :
        components[i].kind = "Resistor" => components[i].value[1] > 0

\* C9: get_non_reference_nodes returns the nodes of the node set other than
\* the reference node, each once, in strictly ascending order, and the
\* solver's node_to_index maps each of them to its position (from 0) in
\* that sequence.
C9_NonReferenceNodesSorted ==
    /\ last.op = "get_non_reference_nodes" =>
          /\ Range(last.ret) = nodes \ {reference_node}
          /\ \A i \in DOMAIN last.ret, j \in DOMAIN last.ret :
                i < j => last.ret[i] < last.ret[j]
    /\ last.op = "CircuitSolver" =>
          LET seq == get_non_reference_nodes(nodes, reference_node)
              n2i == last.ret.node_to_index
          IN  /\ DOMAIN n2i = nodes \ {reference_node}
              /\ \A n \in DOMAIN n2i :
                    /\ n2i[n] + 1 \in DOMAIN seq
                    /\ seq[n2i[n] + 1] = n

C9_Witness ==
    /\ last.op = "CircuitSolver"
    /\ reference_node = 1
    /\ last.ret.num_nodes = 2
    /\ last.ret.node_to_index[2] = 1

\* C10 as stated: get_components_connected_to_node(n) returns exactly one
\* (component, other_endpoint) pair for every component with n as a
\* terminal, other_endpoint being the terminal of the component that is
\* not n, and no pair for a component that does not touch n.
C10_IncidentPairs ==
    last.op = "get_components_connected_to_node" =>
        LET n == last.node
            r == last.ret
        IN  /\ \A i \in DOMAIN r :
                  /\ r[i][1] \in Range(components)
                  /\ r[i][2] \in {r[i][1].node1, r[i][1].node2}
                  /\ r[i][2] # n
            /\ \A c \in Range(components) :
                  Cardinality({i \in DOMAIN r : r[i][1] = c})
                    = IF n \in {c.node1, c.node2} THEN 1 ELSE 0

(* --------------------------------------------------------- solver claims *)
\* the circuit is the list of components given as (kind, value, node1, node2)
CircuitIs(templates) ==
    /\ Len(components) = Len(templates)
    /\ \A k \in DOMAIN templates :
          <<components[k].kind, components[k].value,
            components[k].node1, components[k].node2>> = templates[k]

\* VS(5,1,0), VS(6,1,0) with the reference 0
ConflictingSources ==
    /\ CircuitIs(<< <<"VoltageSource", <<5, 1>>, 1, 0>>,
                    <<"VoltageSource", <<6, 1>>, 1, 0>> >>)
    /\ reference_node = 0
    /\ nodes = {0, 1}

\* C11: solving the circuit VS(5,1,0), VS(6,1,0) returns an error result
\* whose message reports a singular matrix and which has no field besides
\* status, message and suggestion: no voltages, no component results, no
\* other numeric result.
C11_ConflictingSourcesSingular ==
    (last.op = "solve" /\ ConflictingSources) =>
        /\ last.ret.status = "error"
        /\ last.ret.message =
               "Singular matrix: Circuit may be unsolvable. Singular matrix"
        /\ DOMAIN last.ret = {"status", "message", "suggestion"}

C11_Witness == last.op = "solve" /\ ConflictingSources


\* the phases of a solve call, in the order of the code
SolvePhases == <<"assembly", "linear solve", "packaging">>

\* 1.0 / resistor.value fails for some resistor of the circuit
AssemblyFails ==
    \E k \in DOMAIN components :
        components[k].kind = "Resistor" /\ components[k].value = RZero

\* an error result: status, message and suggestion, nothing else
IsErrorResult(r) ==
    /\ DOMAIN r = {"status", "message", "suggestion"}
    /\ r.status = "error"
    /\ r.suggestion = "Check circuit connectivity and component values"

\* a success result: the numeric fields and no message
IsSuccessResult(r) ==
    /\ DOMAIN r = {"status", "voltages", "components", "total_power",
                   "matrix_solution", "summary"}
    /\ r.status = "success"

\* C12: a solve call enters assembly, linear solve and packaging in this
\* order and each at most once (the phases entered are a non-empty prefix
\* of the three); a call whose assembly fails stops after assembly, a call
\* that stops before packaging returns an error result (status error,
\* message, suggestion) and nothing numeric, a call that reaches packaging
\* returns a success result; no result is both.
C12_SolveOutcome ==
    last.op = "solve" =>
        /\ \E n \in 1 .. 3 : last.trace = SubSeq(SolvePhases, 1, n)
        /\ AssemblyFails => last.trace = <<"assembly">>
        /\ Len(last.trace) < 3 => IsErrorResult(last.ret)
        /\ Len(last.trace) = 3 => IsSuccessResult(last.ret)
        /\ ~ (IsErrorResult(last.ret) /\ IsSuccessResult(last.ret))
        /\ Len(last.trace) = 1 =>
               last.ret.message = "Solver error: float division by zero"
        /\ Len(last.trace) = 2 =>
               last.ret.message =
                   "Singular matrix: Circuit may be unsolvable. Singular matrix"

C12_Witness ==
    /\ last.op = "solve"
    /\ AssemblyFails
    /\ last.trace = <<"assembly">>
    /\ last.ret.status = "error"


\* the index of the non-reference node n in the unknown vector: the number
\* of non-reference nodes of the circuit below n
UnknownIndex(n) == Cardinality({m \in nodes \ {reference_node} : m < n})

\* C13: in every success result of solve the voltage map has the reference
\* node with the value exactly 0 and, for every non-reference node n of the
\* circuit, one entry equal to X[index(n)], X the reported solution vector;
\* it has no other entry.
C13_VoltageMap ==
    (last.op = "solve" /\ last.ret.status = "success") =>
        LET voltages == last.ret.voltages
            X == last.ret.matrix_solution.voltage_solution
        IN  /\ DOMAIN voltages = nodes \cup {reference_node}
            /\ voltages[reference_node] = <<0, 1>>
            /\ \A n \in nodes \ {reference_node} :
                  voltages[n] = X[UnknownIndex(n)]

C13_Witness ==
    /\ last.op = "solve"
    /\ last.ret.status = "success"
    /\ Cardinality(nodes \ {reference_node}) = 2
    /\ reference_node = 1
    /\ \E n \in nodes : last.ret.voltages[n] # <<0, 1>>


\* the calls that analyse, print or solve the circuit
ReadOnlyCalls == {"NodalAnalysis", "build_equations", "CircuitSolver", "solve"}

\* C14: no step that is a topology analysis (NodalAnalysis), an equation
\* generation (EquationBuilder.build_equations), a construction of a solver
\* or a solve changes the components, the node set, the graph or the
\* reference node of the circuit, whatever was called before and however
\* often.
C14_AnalysisLeavesCircuit ==
    [][last'.op \in ReadOnlyCalls =>
          UNCHANGED <<components, graph, nodes, reference_node>>]_vars

C14_Witness ==
    /\ last.op = "build_equations"
    /\ Len(last.ret) = 3
    /\ Len(components) = 3
    /\ reference_node = 1


(* -------------------------------------------------------- request claims *)
\* the token GND in any letter case
IsGndToken(j) == j.tag = "str" /\ Upper(j.val) = "GND"

\* the body is a dictionary whose components are a list of records with
\* the four fields
IsNetlist(data) ==
    /\ data.tag = "dict"
    /\ "components" \in DOMAIN data.val
    /\ data.val["components"].tag = "list"
    /\ \A k \in DOMAIN data.val["components"].val :
          LET rec == data.val["components"].val[k]
          IN  rec.tag = "dict" /\ required_keys \subseteq DOMAIN rec.val

\* some record of the netlist has the token GND as nodeA or nodeB
HasGndToken(data) ==
    \E k \in DOMAIN data.val["components"].val :
        LET d == data.val["components"].val[k].val
        IN  IsGndToken(d["nodeA"]) \/ IsGndToken(d["nodeB"])

\* the netlist with the integer 0 in the place of every token GND
GndAsZero(j) == IF IsGndToken(j) THEN JInt(0) ELSE j

WithGndAsZero(data) ==
    JDict([components |->
        JList([k \in DOMAIN data.val["components"].val |->
            LET d == data.val["components"].val[k].val
            IN  JDict([f \in DOMAIN d |->
                    IF f \in {"nodeA", "nodeB"} THEN GndAsZero(d[f]) ELSE d[f]])])])

\* C15: a request whose records name a node by the token GND (any letter
\* case) is answered, and its circuit built, exactly as the request with
\* the integer 0 in the place of the token.
C15_GndTokenAccepted ==
    (last.op = "solve_circuit" /\ IsNetlist(last.data) /\ HasGndToken(last.data)) =>
        LET r == solve_circuit_run(WithGndAsZero(last.data))
        IN  /\ last.ret = [status |-> r.status, body |-> r.body]
            /\ components = r.model.components

\* the request has one of the input errors: components missing or not a
\* list, a record that is not an object, a missing field, a type that is
\* not a string or not a known name, a value that is not a number, a node
\* that is neither an integer nor the token GND
InputError(data) ==
    \/ data.tag # "dict"
    \/ "components" \notin DOMAIN data.val
    \/ data.val["components"].tag # "list"
    \/ \E k \in DOMAIN data.val["components"].val :
          LET rec == data.val["components"].val[k]
              d == rec.val
          IN  \/ rec.tag # "dict"
              \/ ~ (required_keys \subseteq DOMAIN d)
              \/ d["type"].tag # "str"
              \/ upper_strip(d["type"].val) \notin DOMAIN COMPONENT_MAP
              \/ d["value"].tag \notin {"int", "float"}
              \/ \E f \in {"nodeA", "nodeB"} :
                    d[f].tag # "int" /\ ~ IsGndToken(d[f])

\* C16: every request with an input error is answered with the
\* client-error status 400 and success = false, and solve is not called
\* for it.
C16_InputErrorIsClientError ==
    (last.op = "solve_circuit" /\ InputError(last.data)) =>
        /\ last.ret.status = 400
        /\ last.ret.body.success = FALSE
        /\ ~ last.solved


(* --------------------------------------------------- solver claims, cont. *)
\* a valid circuit of the data model: every component between two distinct
\* nodes, every resistance positive, the reference node among the nodes
ValidCircuit ==
    /\ \A k \in DOMAIN components :
          /\ components[k].node1 # components[k].node2
          /\ components[k].kind = "Resistor" => components[k].value[1] > 0
    /\ reference_node \in nodes

\* the permutations of 1..n
ListOrders(n) ==
    {p \in [1 .. n -> 1 .. n] : \A i, j \in 1 .. n : p[i] = p[j] => i = j}

\* the result of constructing a solver and solving for the same circuit
\* with its components listed in the order p
SolvePermuted(p) ==
    LET comps == [k \in DOMAIN components |-> components[p[k]]]
    IN  solve_run(solver_fields(comps, nodes, reference_node), comps).ret

\* C17: when a valid circuit is solved with success (its solution is
\* unique), solving it with its component list in any other order succeeds
\* too, with the same voltage at every node and, for every component, the
\* same power as reported for that component (not for that position) in
\* the original order.
C17_ReorderingInvariance ==
    (last.op = "solve" /\ last.ret.status = "success" /\ ValidCircuit) =>
        \A p \in ListOrders(Len(components)) :
            LET r == SolvePermuted(p)
            IN  /\ r.status = "success"
                /\ r.voltages = last.ret.voltages
                /\ \A k \in DOMAIN components :
                      /\ r.components[k].id = last.ret.components[p[k]].id
                      /\ r.components[k].power = last.ret.components[p[k]].power

C17_Witness ==
    /\ last.op = "solve"
    /\ last.ret.status = "success"
    /\ ValidCircuit
    /\ Len(components) = 3
    /\ Len(voltage_sources_of(components)) = 2
    /\ \E j, k \in DOMAIN components :
          /\ components[j].kind = "VoltageSource"
          /\ components[k].kind = "VoltageSource"
          /\ last.ret.components[j].current # last.ret.components[k].current


\* Conservation of power in exact arithmetic: when a valid circuit is solved
\* with success, the reported powers add up to exactly 0 and total_power
\* is that sum.  (Rounding of the floating-point sums is outside the model.)
ExactPowerConservation ==
    (last.op = "solve" /\ last.ret.status = "success" /\ ValidCircuit) =>
        /\ RSum([k \in DOMAIN components |-> last.ret.components[k].power],
                1, Len(components)) = <<0, 1>>
        /\ last.ret.total_power = <<0, 1>>
        /\ last.ret.summary.power_balance


\* VS(5,1,0), R1(100,1,0), R2(100,1,0) with the reference 0
ParallelResistors ==
    /\ CircuitIs(<< <<"VoltageSource", <<5, 1>>, 1, 0>>,
                    <<"Resistor", <<100, 1>>, 1, 0>>,
                    <<"Resistor", <<100, 1>>, 1, 0>> >>)
    /\ reference_node = 0

\* C20: solving VS(5,1,0), R1(100,1,0), R2(100,1,0) with the reference 0
\* succeeds with V(1) = 5; each resistor carries 1/20 A and dissipates
\* 1/4 W; the current of the voltage source is -1/10 A, minus the sum of
\* the two resistor currents, and its power is -1/2 W; both resistors are
\* stamped (G[0][0] = 1/100 + 1/100) and reported as two components with
\* different ids.
C20_ParallelResistors ==
    (last.op = "solve" /\ ParallelResistors) =>
        LET c == last.ret.components
        IN  /\ last.ret.status = "success"
            /\ last.ret.voltages = (0 :> <<0, 1>>) @@ (1 :> <<5, 1>>)
            /\ Len(c) = 3
            /\ c[1].type = "Voltage Source"
            /\ c[1].current = <<0 - 1, 10>>
            /\ c[1].current = RNeg(RAdd(c[2].current, c[3].current))
            /\ c[1].power = <<0 - 1, 2>>
            /\ \A k \in {2, 3} :
                  /\ c[k].type = "Resistor"
                  /\ c[k].current = <<1, 20>>
                  /\ c[k].power = <<1, 4>>
            /\ c[2].id # c[3].id
            /\ last.ret.matrix_solution.conductance_matrix[0][0] = <<1, 50>>
            /\ last.ret.matrix_solution.voltage_solution =
                   (0 :> <<5, 1>>) @@ (1 :> <<0 - 1, 10>>)

C20_Witness == last.op = "solve" /\ ParallelResistors


(* -------------------------------------------------------- equation claims *)
\* the KCL equations among the equations eqs: those with a label
KclEquations(eqs) == {k \in DOMAIN eqs : "label" \in DOMAIN eqs[k]}

\* the positions of eqs holding the NodeKCL equation of the node n
NodeKclOf(eqs, n) ==
    {k \in KclEquations(eqs) : eqs[k].label = "Node" /\ eqs[k].node = n}

\* the positions of eqs holding the SupernodeKCL equation of the supernode S
SupernodeKclOf(eqs, S) ==
    {k \in KclEquations(eqs) :
        eqs[k].label = "Supernode" /\ Range(eqs[k].nodes) = S}

\* C21: for every circuit build_equations emits exactly one NodeKCL
\* equation for every regular non-reference node and exactly one
\* SupernodeKCL equation for every ungrounded supernode, none for a grounded
\* supernode and no other KCL equation, also when the KCL sum has no terms.
C21_OneKclPerNodeAndSupernode ==
    last.op = "build_equations" =>
        LET a == analysis_summary(components, nodes, reference_node)
            eqs == last.ret
        IN  /\ \A n \in Range(a.regular_nodes) :
                  Cardinality(NodeKclOf(eqs, n)) = 1
            /\ \A i \in DOMAIN a.ungrounded_supernodes :
                  Cardinality(SupernodeKclOf(eqs, a.ungrounded_supernodes[i])) = 1
            /\ \A i \in DOMAIN a.grounded_supernodes :
                  SupernodeKclOf(eqs, a.grounded_supernodes[i]) = {}
            /\ Cardinality(KclEquations(eqs)) = a.num_kcl_equations


\* The KCL equations of sums with terms: no node and no supernode gets two
\* equations, a grounded supernode gets none, and every KCL equation is the
\* one of a regular node or of an ungrounded supernode.
KclEquationsWithTerms ==
    last.op = "build_equations" =>
        LET a == analysis_summary(components, nodes, reference_node)
            eqs == last.ret
        IN  /\ \A n \in Range(a.regular_nodes) :
                  Cardinality(NodeKclOf(eqs, n)) <= 1
            /\ \A i \in DOMAIN a.ungrounded_supernodes :
                  Cardinality(SupernodeKclOf(eqs, a.ungrounded_supernodes[i])) <= 1
            /\ \A i \in DOMAIN a.grounded_supernodes :
                  SupernodeKclOf(eqs, a.grounded_supernodes[i]) = {}
            /\ \A k \in KclEquations(eqs) :
                  /\ eqs[k].terms # <<>>
                  /\ \/ /\ eqs[k].label = "Node"
                        /\ eqs[k].node \in Range(a.regular_nodes)
                     \/ /\ eqs[k].label = "Supernode"
                        /\ Range(eqs[k].nodes) \in Range(a.ungrounded_supernodes)

\* the rendering r of a number with one decimal shows the rational q: the
\* signed number of tenths is within half a tenth of q
Shows(r, q) ==
    LET t == IF r.negative THEN 0 - r.tenths ELSE r.tenths
        d == RSub(RMul(q, <<10, 1>>), <<t, 1>>)
    IN  ~ RLess(<<1, 2>>, RAbs(d))

\* the k-th voltage source of the circuit in insertion order
NthVoltageSource(k) ==
    LET at == {i \in DOMAIN components : components[i].kind = "VoltageSource"}
        i == CHOOSE j \in at :
                 Cardinality({h \in at : h <= j}) = k
    IN  components[i]

NumNodes == Cardinality(nodes \ {reference_node})
NumVs == Cardinality({i \in DOMAIN components :
                         components[i].kind = "VoltageSource"})

\* the index k, from 0, among the voltage sources of the component at the
\* position i
VsIndex(i) ==
    Cardinality({h \in 1 .. i - 1 : components[h].kind = "VoltageSource"})

\* x when b holds, and nothing otherwise
When(b, x) == IF b THEN x ELSE RZero

\* what the stamp table adds to G[r, c] for the component at the position i
TableG(i, r, c) ==
    LET comp == components[i]
        in1 == comp.node1 # reference_node
        in2 == comp.node2 # reference_node
        a == UnknownIndex(comp.node1)
        b == UnknownIndex(comp.node2)
        row == NumNodes + VsIndex(i)
        g == RDiv(ROne, comp.value)
    IN  IF comp.kind = "Resistor"
           THEN IF in1 /\ in2
                   THEN RAdd(RAdd(When(r = a /\ c = a, g),
                                  When(r = b /\ c = b, g)),
                             RAdd(When(r = a /\ c = b, RNeg(g)),
                                  When(r = b /\ c = a, RNeg(g))))
                ELSE IF in1 THEN When(r = a /\ c = a, g)
                ELSE IF in2 THEN When(r = b /\ c = b, g)
                ELSE RZero
        ELSE IF comp.kind = "VoltageSource"
           THEN RAdd(When(in1 /\ ((r = row /\ c = a) \/ (r = a /\ c = row)),
                          ROne),
                     When(in2 /\ ((r = row /\ c = b) \/ (r = b /\ c = row)),
                          RNeg(ROne)))
        ELSE RZero

\* what the stamp table adds to Z[r] for the component at the position i
TableZ(i, r) ==
    LET comp == components[i]
        in1 == comp.node1 # reference_node
        in2 == comp.node2 # reference_node
        a == UnknownIndex(comp.node1)
        b == UnknownIndex(comp.node2)
    IN  IF comp.kind = "CurrentSource"
           THEN RAdd(When(in1 /\ r = a, RNeg(comp.value)),
                     When(in2 /\ r = b, comp.value))
        ELSE IF comp.kind = "VoltageSource"
           THEN When(r = NumNodes + VsIndex(i), comp.value)
        ELSE RZero

\* the system a assembled for the circuit is the zero matrix and vector plus
\* the stamps of the table, once per component
StampsAgree(a) ==
    LET size == NumNodes + NumVs
    IN  /\ DOMAIN a.G = 0 .. size - 1
        /\ DOMAIN a.Z = 0 .. size - 1
        /\ \A r \in 0 .. size - 1 :
              /\ DOMAIN a.G[r] = 0 .. size - 1
              /\ \A c \in 0 .. size - 1 :
                    a.G[r][c] = RSum([i \in DOMAIN components |-> TableG(i, r, c)],
                                     1, Len(components))
              /\ a.Z[r] = RSum([i \in DOMAIN components |-> TableZ(i, r)],
                               1, Len(components))

\* C23: for every circuit the solver accepts, the assembled G and Z are the
\* zero matrix and vector plus the additive stamps of the table, once per
\* component (a terminal at the reference adds nothing), and a success
\* result reports that G and Z.
C23_AdditiveStamps ==
    last.op = "solve" =>
        LET a == build_mna_system(last.self)
        IN  ~ a.raised =>
               /\ StampsAgree(a)
               /\ (last.ret.status = "success" /\ NumNodes + NumVs > 0) =>
                     /\ last.ret.matrix_solution.conductance_matrix = a.G
                     /\ last.ret.matrix_solution.current_vector = a.Z

\* no voltage source of the circuit has both terminals on one node
NoVoltageSourceLoop ==
    \A i \in DOMAIN components :
        components[i].kind = "VoltageSource" =>
            components[i].node1 # components[i].node2

\* The stamps on the circuits of the data model: when every voltage source
\* has two distinct terminals, the entries _stamp_voltage_sources assigns
\* are the entries the table adds.
StampsWithoutVoltageSourceLoop ==
    (last.op = "solve" /\ NoVoltageSourceLoop) =>
        LET a == build_mna_system(last.self)
        IN  ~ a.raised => StampsAgree(a)


C26_SymmetricG ==
    last.op = "solve" =>
        LET a == build_mna_system(last.self)
            size == NumNodes + NumVs
        IN  ~ a.raised =>
               /\ DOMAIN a.G = 0 .. size - 1
               /\ \A r, c \in 0 .. size - 1 : a.G[r][c] = a.G[c][r]
               /\ \A r, c \in NumNodes .. size - 1 : a.G[r][c] = RZero

\* a system assembled for a resistor between two non-reference nodes, a
\* current source and a voltage source, with entries off the diagonal
C26_Witness ==
    /\ last.op = "solve"
    /\ ~ build_mna_system(last.self).raised
    /\ NumVs >= 1
    /\ \E i, j \in DOMAIN components :
          /\ components[i].kind = "Resistor"
          /\ components[i].node1 # reference_node
          /\ components[i].node2 # reference_node
          /\ components[i].node1 # components[i].node2
          /\ components[j].kind = "CurrentSource"
    /\ \E r, c \in 0 .. NumNodes - 1 :
          r # c /\ build_mna_system(last.self).G[r][c] # RZero


\* a step of the solve of the solver f fails: the assembly raises, or the
\* linear solve raises, or the residual verification raises
SolveStepFails(f) ==
    LET a == build_mna_system(f)
    IN  \/ a.raised
        \/ /\ ~ a.raised
           /\ \/ linalg_solve(a.G, a.Z).raised
              \/ max_error_raises(a.Z)

\* the success result ret carries the G and Z assembled for the solver f, a
\* solution X of G X = Z and the residual G X - Z
CarriesRealSystem(f, ret) ==
    LET a == build_mna_system(f)
        ms == ret.matrix_solution
    IN  /\ ~ a.raised
        /\ ms.conductance_matrix = a.G
        /\ ms.current_vector = a.Z
        /\ DOMAIN ms.voltage_solution = DOMAIN a.Z
        /\ \A r \in DOMAIN a.Z :
              /\ MatVec(a.G, ms.voltage_solution)[r] = a.Z[r]
              /\ ms.verification.residual[r] =
                     RSub(MatVec(a.G, ms.voltage_solution)[r], a.Z[r])

\* C25: no failure raised during a solve is swallowed: whenever a step of
\* solve (assembly, linear solve, residual verification, packaging) fails,
\* the result has status error, and a result with status success carries the
\* real G, Z, X and residual of that solve, for every circuit, also one with
\* no components.
C25_NoSwallowedFailure ==
    last.op = "solve" =>
        /\ SolveStepFails(last.self) => last.ret.status = "error"
        /\ last.ret.status = "success" => CarriesRealSystem(last.self, last.ret)

\* Failures of a solve with at least one unknown: the assembly and the
\* linear solve are the steps that fail, the result has status error exactly
\* then, and a success result carries the real G, Z, X and residual.
FailuresWithUnknowns ==
    (last.op = "solve" /\ NumNodes + NumVs > 0) =>
        /\ SolveStepFails(last.self) <=> last.ret.status = "error"
        /\ last.ret.status = "success" =>
              /\ CarriesRealSystem(last.self, last.ret)
              /\ Len(last.ret.matrix_solution.steps) = 5


====
